---- MODULE Spec2Model ----
(***************************************************************************)
(* Model of terara's storage core: the advisory lock registry              *)
(* (pkg/storage Lock), the tagged binary object codec (pkg/types) and the  *)
(* Document wrapper (pkg/storage Document).                                *)
(***************************************************************************)
EXTENDS Integers, Sequences, FiniteSets, TLC

\* ------------------------------------------------------------------ bounds
NumCallers == 2

Callers == 1..NumCallers
\* Registry keys are independent of each other; two distinct keys are modelled.
LockKeys == {"k", "j"}

VARIABLES
    d,          \* the Document wrapper: kv, modified, static
    call,       \* the last call made on the wrapper: arguments, results, d before it
    src,        \* codec run: the Document to encode
    stream,     \* codec run: the stream received instead, as a shape
    buf,        \* codec run: the bytes to decode
    full,       \* codec run: the outcome of UnmarshalObject into a fresh wrapper
    proj,       \* codec run: the outcome of Project into a fresh wrapper
    locks,      \* Lock.locks: map[string]bool
    mu,         \* Lock.mu: 0 when free, else the caller holding it
    pc,         \* per caller: position inside its current registry call
    op,         \* per caller: the method being executed
    key,        \* per caller: the key argument
    ret,        \* per caller: the value IsLocked is about to return
    last,       \* history: per key, the most recent Lock/Unlock that took effect
    holders,    \* history: per key, callers whose Lock took effect since the last Unlock
    val,        \* value run: the Object to encode
    wire,       \* value run: the bytes to decode
    res,        \* value run: the outcome of types.UnmarshalObject on a prefix of wire
    input,      \* Lexer.input, as a sequence of one-character strings
    pos,        \* Lexer.pos
    tok         \* the last return of NextToken: the token, the error, the cursor before

lockVars == <<locks, mu, pc, op, key, ret, last, holders>>
docVars == <<d, call>>
decVars == <<src, stream, buf, full, proj>>
valVars == <<val, wire, res>>
lexVars == <<input, pos, tok>>
vars == <<d, call, src, stream, buf, full, proj, locks, mu, pc, op, key, ret, last, holders,
          val, wire, res, input, pos, tok>>

\* ------------------------------------------------------- advisory lock registry
\* Go map read: a missing key reads as the zero value, false.
MapGet(m, k) == IF k \in DOMAIN m THEN m[k] ELSE FALSE

\* m[k] = v
MapPut(m, k, v) == [x \in DOMAIN m \cup {k} |-> IF x = k THEN v ELSE m[x]]

\* delete(m, k)
MapDelete(m, k) == [x \in DOMAIN m \ {k} |-> m[x]]

\* NewLocks(): an empty map, a free mutex
NewLocks ==
    /\ locks = << >>
    /\ mu = 0
    /\ pc = [c \in Callers |-> "idle"]
    /\ op = [c \in Callers |-> "none"]
    /\ key = [c \in Callers |-> ""]
    /\ ret = [c \in Callers |-> FALSE]
    /\ last = [k \in LockKeys |-> "none"]
    /\ holders = [k \in LockKeys |-> {}]
    /\ d = << >> /\ call = << >>
    /\ src = << >> /\ stream = << >> /\ buf = << >> /\ full = << >> /\ proj = << >>
    /\ val = << >> /\ wire = << >> /\ res = << >>
    /\ input = << >> /\ pos = 0 /\ tok = << >>

\* A caller enters one of the three methods with some key.
Call(c) ==
    /\ pc[c] = "idle"
    /\ \E o \in {"Lock", "Unlock", "IsLocked"}, k \in LockKeys :
          /\ op' = [op EXCEPT ![c] = o]
          /\ key' = [key EXCEPT ![c] = k]
    /\ pc' = [pc EXCEPT ![c] = "mu.Lock"]
    /\ ret' = [ret EXCEPT ![c] = FALSE]
    /\ UNCHANGED <<locks, mu, last, holders>>
    /\ UNCHANGED <<docVars, decVars, valVars, lexVars>>

\* Mutant: Lock(k) waits until k is unclaimed, as an exclusive lock would.
MuLockGuard_WaitForKey(c) == mu = 0 /\ (op[c] = "Lock" => ~MapGet(locks, key[c]))

\* l.mu.Lock(): the only wait of a call is for the registry mutex itself.
MuLockGuard(c) == mu = 0

MuLock(c) ==
    /\ pc[c] = "mu.Lock"
    /\ MuLockGuard(c)
    /\ mu' = c
    /\ pc' = [pc EXCEPT ![c] = "body"]
    /\ UNCHANGED <<locks, op, key, ret, last, holders>>
    /\ UNCHANGED <<docVars, decVars, valVars, lexVars>>

\* Mutant: Lock behaves as a toggle, releasing a key that is already claimed.
LockBody_Toggle(m, k) == IF MapGet(m, k) THEN MapDelete(m, k) ELSE MapPut(m, k, TRUE)

\* l.locks[key] = true
LockBody(m, k) == MapPut(m, k, TRUE)

Lock(c) ==
    /\ pc[c] = "body" /\ op[c] = "Lock" /\ mu = c
    /\ locks' = LockBody(locks, key[c])
    /\ last' = [last EXCEPT ![key[c]] = "Lock"]
    /\ holders' = [holders EXCEPT ![key[c]] = @ \cup {c}]
    /\ pc' = [pc EXCEPT ![c] = "mu.Unlock"]
    /\ UNCHANGED <<mu, op, key, ret>>
    /\ UNCHANGED <<docVars, decVars, valVars, lexVars>>

\* delete(l.locks, key)
UnlockBody(m, k) == MapDelete(m, k)

Unlock(c) ==
    /\ pc[c] = "body" /\ op[c] = "Unlock" /\ mu = c
    /\ locks' = UnlockBody(locks, key[c])
    /\ last' = [last EXCEPT ![key[c]] = "Unlock"]
    /\ holders' = [holders EXCEPT ![key[c]] = {}]
    /\ pc' = [pc EXCEPT ![c] = "mu.Unlock"]
    /\ UNCHANGED <<mu, op, key, ret>>
    /\ UNCHANGED <<docVars, decVars, valVars, lexVars>>

\* return l.locks[key] (evaluated before the deferred l.mu.Unlock())
IsLocked(c) ==
    /\ pc[c] = "body" /\ op[c] = "IsLocked" /\ mu = c
    /\ ret' = [ret EXCEPT ![c] = MapGet(locks, key[c])]
    /\ pc' = [pc EXCEPT ![c] = "mu.Unlock"]
    /\ UNCHANGED <<locks, mu, op, key, last, holders>>
    /\ UNCHANGED <<docVars, decVars, valVars, lexVars>>

\* l.mu.Unlock(), after which the call returns and its frame is gone
MuUnlock(c) ==
    /\ pc[c] = "mu.Unlock" /\ mu = c
    /\ mu' = 0
    /\ pc' = [pc EXCEPT ![c] = "idle"]
    /\ op' = [op EXCEPT ![c] = "none"]
    /\ key' = [key EXCEPT ![c] = ""]
    /\ ret' = [ret EXCEPT ![c] = FALSE]
    /\ UNCHANGED <<locks, last, holders>>
    /\ UNCHANGED <<docVars, decVars, valVars, lexVars>>

NextLock ==
    \E c \in Callers :
        \/ Call(c)
        \/ MuLock(c)
        \/ Lock(c)
        \/ Unlock(c)
        \/ IsLocked(c)
        \/ MuUnlock(c)

SpecLock == NewLocks /\ [][NextLock]_vars

\* ------------------------------------------------------------ claims C1, C2
\* C1: IsLocked(k) is true exactly when the most recent Lock or Unlock that took
\* effect on k was a Lock (false if there was none): this holds of the map in
\* every state and of the value every IsLocked call is about to return.
C1_IsLockedIffLastWasLock ==
    /\ \A k \in LockKeys : MapGet(locks, k) <=> (last[k] = "Lock")
    /\ \A c \in Callers :
          (pc[c] = "mu.Unlock" /\ op[c] = "IsLocked")
              => (ret[c] <=> (last[key[c]] = "Lock"))

\* C1 witness: IsLocked(k) returns true for a key on which Lock took effect twice
\* with no Unlock in between.
C1_Witness ==
    \E c \in Callers :
        /\ pc[c] = "mu.Unlock" /\ op[c] = "IsLocked" /\ ret[c]
        /\ Cardinality(holders[key[c]]) >= 2

\* C2: calls are serialized by the registry mutex (a caller inside a method body
\* holds it), the claimed set is the outcome of the calls in the order they took
\* effect (k is claimed iff some Lock(k) took effect since the last Unlock(k),
\* so one Unlock clears it for every caller), and no call waits for a key: with
\* the mutex free every pending call can proceed, whatever the claimed set.
C2_SerializedNotExclusive ==
    /\ \A c \in Callers : pc[c] \in {"body", "mu.Unlock"} => mu = c
    /\ \A k \in LockKeys : MapGet(locks, k) <=> (holders[k] # {})
    /\ \A c \in Callers : (pc[c] = "mu.Lock" /\ mu = 0) => ENABLED MuLock(c)
    /\ \A c \in Callers :
          pc[c] = "body" => ENABLED (Lock(c) \/ Unlock(c) \/ IsLocked(c))

\* C2 witness: two callers have both returned from Lock(k) with no Unlock(k) in
\* between.
C2_Witness ==
    \E k \in LockKeys : \E c1, c2 \in holders[k] :
        /\ c1 # c2
        /\ pc[c1] = "idle" /\ pc[c2] = "idle"
        /\ MapGet(locks, k)

\* ------------------------------------------------------------ object codec
\* Type tags (the iota block of pkg/types).
NullType == 0
BoolType == 1
Int64Type == 2
Int32Type == 3
FloatType == 4
StringType == 5
CharType == 6
ArrayType == 9
DocumentType == 10
EOFType == 24
NameType == 25
LastType == 26
NullTerm == 0

\* Mutant: the Name tag is not counted among the internal tags.
IsInternal_NoName(t) == t = EOFType \/ t = LastType

IsInternal(t) == t = EOFType \/ t = NameType \/ t = LastType

\* error values; NoErr is Go's nil error, Panic a run-time panic (index out of range)
NoErr == "nil"
ErrInvalidLength == "invalid length"
ErrInvalidType == "invalid type"
ErrInvalidDocument == "invalid document"
ErrStaticDocument == "static document"
Panic == "panic: index out of range"

\* An Object: its Type() and its Value(). A scalar's value v is a sequence of
\* integers: the bytes of a String or Name, the IEEE-754 bit pattern of a Float
\* (8 bytes), <<i>> for an integer or a Char, <<0>> or <<1>> for a Bool, << >>
\* for Null and EOF. An Array holds its elements in el.
Obj(t, v) == [t |-> t, v |-> v, el |-> << >>]
Arr(el) == [t |-> ArrayType, v |-> << >>, el |-> el]
NilObj == Obj(-1, << >>)

\* b[from:] of a Go slice (from is 0-based)
SliceFrom(b, from) == SubSeq(b, from + 1, Len(b))

\* binary.BigEndian.PutUintN: the n low-order bytes of x, most significant first
RECURSIVE PutUint(_, _)
PutUint(x, n) == IF n = 0 THEN << >> ELSE Append(PutUint(x \div 256, n - 1), x % 256)

\* uintN(i) for a signed i, then PutUintN: two's complement
PutInt(i, n) ==
    IF i >= 0 THEN PutUint(i, n)
    ELSE LET m == PutUint(-(i + 1), n) IN [j \in 1..n |-> 255 - m[j]]

\* binary.BigEndian.UintN
RECURSIVE Uint(_)
Uint(bs) ==
    IF Len(bs) = 0 THEN 0 ELSE Uint(SubSeq(bs, 1, Len(bs) - 1)) * 256 + bs[Len(bs)]

\* intN(binary.BigEndian.UintN(bs)): reinterpret as two's complement
ToInt(bs) ==
    IF bs[1] >= 128 THEN -Uint([j \in 1..Len(bs) |-> 255 - bs[j]]) - 1 ELSE Uint(bs)

Int64Marshal(i) == <<Int64Type>> \o PutInt(i, 8)

Int64Unmarshal(b) ==
    IF Len(b) < 9 THEN [o |-> NilObj, n |-> 0, err |-> ErrInvalidLength]
    ELSE IF b[1] # Int64Type THEN [o |-> NilObj, n |-> 0, err |-> ErrInvalidType]
    ELSE [o |-> Obj(Int64Type, <<ToInt(SubSeq(b, 2, 9))>>), n |-> 9, err |-> NoErr]

Int32Marshal(i) == <<Int32Type>> \o PutInt(i, 4)

Int32Unmarshal(b) ==
    IF Len(b) < 5 THEN [o |-> NilObj, n |-> 0, err |-> ErrInvalidLength]
    ELSE IF b[1] # Int32Type THEN [o |-> NilObj, n |-> 0, err |-> ErrInvalidType]
    ELSE [o |-> Obj(Int32Type, <<ToInt(SubSeq(b, 2, 5))>>), n |-> 5, err |-> NoErr]

\* math.Float64bits reinterprets the value as its bit pattern, kept here as bytes
FloatMarshal(bits) == <<FloatType>> \o bits

FloatUnmarshal(b) ==
    IF Len(b) < 9 THEN [o |-> NilObj, n |-> 0, err |-> ErrInvalidLength]
    ELSE IF b[1] # FloatType THEN [o |-> NilObj, n |-> 0, err |-> ErrInvalidType]
    ELSE [o |-> Obj(FloatType, SubSeq(b, 2, 9)), n |-> 9, err |-> NoErr]

\* a C string: tag, content, NullTerm
StringMarshal(s) == <<StringType>> \o s \o <<NullTerm>>

\* the 0-based index of the first NullTerm at or after index 1, or Len(b) if none
FirstNullTerm(b) ==
    LET hits == {i \in 1..(Len(b) - 1) : b[i + 1] = NullTerm}
    IN IF hits = {} THEN Len(b) ELSE CHOOSE i \in hits : \A j \in hits : i <= j

\* String.UnmarshalObject and Name.UnmarshalObject share this shape
CStringUnmarshal(b, tag) ==
    IF Len(b) < 2 THEN [o |-> NilObj, n |-> 0, err |-> ErrInvalidLength]
    ELSE IF b[1] # tag THEN [o |-> NilObj, n |-> 0, err |-> ErrInvalidType]
    ELSE LET i == FirstNullTerm(b) IN
         IF i < Len(b)
         THEN [o |-> Obj(tag, SubSeq(b, 2, i)), n |-> i + 1, err |-> NoErr]
         ELSE [o |-> NilObj, n |-> 0, err |-> ErrInvalidLength]

StringUnmarshal(b) == CStringUnmarshal(b, StringType)

boolToByte(v) == IF v = 1 THEN 1 ELSE 0

\* Mutant: every payload byte decodes to true.
byteToBool_AlwaysTrue(x) == 1

byteToBool(x) == IF x = 1 THEN 1 ELSE 0

BoolMarshal(v) == <<BoolType, boolToByte(v)>>

\* the length check admits a 1-byte buffer, and by[1] is then out of range
BoolUnmarshal(b) ==
    IF Len(b) < 1 THEN [o |-> NilObj, n |-> 0, err |-> ErrInvalidLength]
    ELSE IF b[1] # BoolType THEN [o |-> NilObj, n |-> 0, err |-> ErrInvalidType]
    ELSE IF Len(b) < 2 THEN [o |-> NilObj, n |-> 0, err |-> Panic]
    ELSE [o |-> Obj(BoolType, <<byteToBool(b[2])>>), n |-> 2, err |-> NoErr]

NullMarshal == <<NullType>>

NullUnmarshal(b) ==
    IF Len(b) < 1 THEN [o |-> NilObj, n |-> 0, err |-> ErrInvalidLength]
    ELSE IF b[1] # NullType THEN [o |-> NilObj, n |-> 0, err |-> ErrInvalidType]
    ELSE [o |-> Obj(NullType, << >>), n |-> 1, err |-> NoErr]

CharMarshal(c) == <<CharType, c>>

CharUnmarshal(b) ==
    IF Len(b) < 2 THEN [o |-> NilObj, n |-> 0, err |-> ErrInvalidLength]
    ELSE IF b[1] # CharType THEN [o |-> NilObj, n |-> 0, err |-> ErrInvalidType]
    ELSE [o |-> Obj(CharType, <<b[2]>>), n |-> 2, err |-> NoErr]

EOFMarshal == <<EOFType>>

EOFUnmarshal(b) ==
    IF Len(b) < 1 THEN [o |-> NilObj, n |-> 0, err |-> ErrInvalidLength]
    ELSE IF b[1] # EOFType THEN [o |-> NilObj, n |-> 0, err |-> ErrInvalidType]
    ELSE [o |-> Obj(EOFType, << >>), n |-> 1, err |-> NoErr]

NameMarshal(s) == <<NameType>> \o s \o <<NullTerm>>

NameUnmarshal(b) == CStringUnmarshal(b, NameType)

RECURSIVE MarshalObject(_)
RECURSIVE ArrayMarshalLoop(_, _, _)

\* the range loop of Array.MarshalObject from element i on; b is the output so far.
\* No EOF is appended after the last element.
ArrayMarshalLoop(a, i, b) ==
    IF i > Len(a) THEN [b |-> b, err |-> NoErr]
    ELSE LET m == MarshalObject(a[i]) IN
         IF m.err # NoErr THEN [b |-> << >>, err |-> m.err]
         ELSE ArrayMarshalLoop(a, i + 1, b \o m.b)

ArrayMarshal(a) == ArrayMarshalLoop(a, 1, <<ArrayType>>)

\* types.MarshalObject: dispatch on the object's tag
MarshalObject(o) ==
    CASE o.t = Int64Type -> [b |-> Int64Marshal(o.v[1]), err |-> NoErr]
      [] o.t = Int32Type -> [b |-> Int32Marshal(o.v[1]), err |-> NoErr]
      [] o.t = FloatType -> [b |-> FloatMarshal(o.v), err |-> NoErr]
      [] o.t = StringType -> [b |-> StringMarshal(o.v), err |-> NoErr]
      [] o.t = BoolType -> [b |-> BoolMarshal(o.v[1]), err |-> NoErr]
      [] o.t = NullType -> [b |-> NullMarshal, err |-> NoErr]
      [] o.t = CharType -> [b |-> CharMarshal(o.v[1]), err |-> NoErr]
      [] o.t = EOFType -> [b |-> EOFMarshal, err |-> NoErr]
      [] o.t = NameType -> [b |-> NameMarshal(o.v), err |-> NoErr]
      [] o.t = ArrayType -> ArrayMarshal(o.el)
      [] OTHER -> [b |-> << >>, err |-> ErrInvalidType]

RECURSIVE UnmarshalObject(_)
RECURSIVE ArrayUnmarshalLoop(_, _, _)

\* the for loop of Array.UnmarshalObject; count is the 0-based cursor, a the
\* elements appended so far. b[count] past the end of b panics; the returned
\* count stops at the EOF byte and does not include it.
ArrayUnmarshalLoop(b, count, a) ==
    IF count >= Len(b) THEN [o |-> Arr(a), n |-> 0, err |-> Panic]
    ELSE IF b[count + 1] = EOFType THEN [o |-> Arr(a), n |-> count, err |-> NoErr]
    ELSE LET r == UnmarshalObject(SliceFrom(b, count)) IN
         IF r.err # NoErr THEN [o |-> Arr(a), n |-> 0, err |-> r.err]
         ELSE ArrayUnmarshalLoop(b, count + r.n, Append(a, r.o))

\* Array.UnmarshalObject on a fresh Array (UnmarshalArray)
UnmarshalArray(b) ==
    IF Len(b) < 1 THEN [o |-> Arr(<< >>), n |-> 0, err |-> ErrInvalidLength]
    ELSE IF b[1] # ArrayType THEN [o |-> Arr(<< >>), n |-> 0, err |-> ErrInvalidType]
    ELSE ArrayUnmarshalLoop(b, 1, << >>)

\* types.UnmarshalObject: dispatch on the leading tag
UnmarshalObject(b) ==
    IF Len(b) < 1 THEN [o |-> NilObj, n |-> 0, err |-> ErrInvalidLength]
    ELSE CASE b[1] = Int64Type -> Int64Unmarshal(b)
           [] b[1] = Int32Type -> Int32Unmarshal(b)
           [] b[1] = FloatType -> FloatUnmarshal(b)
           [] b[1] = StringType -> StringUnmarshal(b)
           [] b[1] = BoolType -> BoolUnmarshal(b)
           [] b[1] = NullType -> NullUnmarshal(b)
           [] b[1] = CharType -> CharUnmarshal(b)
           [] b[1] = EOFType -> EOFUnmarshal(b)
           [] b[1] = NameType -> NameUnmarshal(b)
           [] b[1] = ArrayType -> UnmarshalArray(b)
           [] OTHER -> [o |-> NilObj, n |-> 0, err |-> ErrInvalidType]

\* ------------------------------------------------------------ Document wrapper
MaxStreamFields == 2

IdName == <<105, 100>>          \* "id"
FieldNames == {IdName, <<97>>}  \* "id", "a"

\* NewDocument / NewStaticDocument
NewDocument == [kv |-> << >>, modified |-> FALSE, static |-> FALSE]
NewStaticDocument == [kv |-> << >>, modified |-> FALSE, static |-> TRUE]

\* d.kv[key] of a map[string]types.Object: nil when the key is absent
KvGet(kv, k) == IF k \in DOMAIN kv THEN kv[k] ELSE NilObj

DocID(doc) == KvGet(doc.kv, IdName)

DocGet(doc, k) == KvGet(doc.kv, k)

DocDel(doc, k) ==
    IF doc.static THEN [d |-> doc, err |-> ErrStaticDocument]
    ELSE [d |-> [doc EXCEPT !.kv = MapDelete(@, k), !.modified = TRUE], err |-> NoErr]

\* Mutant: Set without the static guard.
DocSet_Unguarded(doc, k, v) ==
    [d |-> [doc EXCEPT !.kv = MapPut(@, k, v), !.modified = TRUE], err |-> NoErr]

DocSet(doc, k, v) ==
    IF doc.static THEN [d |-> doc, err |-> ErrStaticDocument]
    ELSE [d |-> [doc EXCEPT !.kv = MapPut(@, k, v), !.modified = TRUE], err |-> NoErr]

\* the orders in which ranging over a Go map may yield the keys of S
KeyOrders(S) ==
    {f \in [1..Cardinality(S) -> S] : \A i, j \in 1..Cardinality(S) : f[i] = f[j] => i = j}

\* the key loop of GenericDocumentUnmarshaler from the i-th key of the order on
RECURSIVE DocMarshalLoop(_, _, _, _)
DocMarshalLoop(kv, keys, i, b) ==
    IF i > Len(keys) THEN [b |-> b \o EOFMarshal, err |-> NoErr]
    ELSE LET mn == MarshalObject(Obj(NameType, keys[i]))
             mv == MarshalObject(KvGet(kv, keys[i]))
         IN IF mn.err # NoErr THEN [b |-> << >>, err |-> mn.err]
            ELSE IF mv.err # NoErr THEN [b |-> << >>, err |-> mv.err]
            ELSE DocMarshalLoop(kv, keys, i + 1, b \o mn.b \o mv.b)

\* GenericDocumentUnmarshaler(doc), with keys the order doc.Keys() returned
GenericDocumentUnmarshaler(doc, keys) ==
    IF DocID(doc) = NilObj THEN [b |-> << >>, err |-> ErrInvalidDocument]
    ELSE DocMarshalLoop(doc.kv, keys, 1, <<DocumentType>>)

\* the for loop of Document.UnmarshalObject: kv is d.kv, written in place as the
\* fields are decoded, so the kv returned with an error is the map as it then is.
\* The returned count stops at the EOF byte; the "id" check reads d.kv.
RECURSIVE DocUnmarshalLoop(_, _, _)
DocUnmarshalLoop(b, count, kv) ==
    IF count >= Len(b) THEN [kv |-> kv, n |-> 0, err |-> Panic]
    ELSE IF b[count + 1] = EOFType
    THEN IF IdName \in DOMAIN kv THEN [kv |-> kv, n |-> count, err |-> NoErr]
         ELSE [kv |-> kv, n |-> 0, err |-> ErrInvalidDocument]
    ELSE LET rn == NameUnmarshal(SliceFrom(b, count)) IN
         IF rn.err # NoErr THEN [kv |-> kv, n |-> 0, err |-> rn.err]
         ELSE LET rv == UnmarshalObject(SliceFrom(b, count + rn.n)) IN
              IF rv.err # NoErr THEN [kv |-> kv, n |-> 0, err |-> rv.err]
              ELSE IF IsInternal(rv.o.t) THEN [kv |-> kv, n |-> 0, err |-> ErrInvalidDocument]
              ELSE DocUnmarshalLoop(b, count + rn.n + rv.n, MapPut(kv, rn.o.v, rv.o))

\* Document.UnmarshalObject
DocUnmarshal(doc, b) ==
    IF Len(b) < 1 THEN [d |-> doc, n |-> 0, err |-> ErrInvalidLength]
    ELSE IF b[1] # DocumentType THEN [d |-> doc, n |-> 0, err |-> ErrInvalidType]
    ELSE LET r == DocUnmarshalLoop(b, 1, doc.kv) IN
         [d |-> [doc EXCEPT !.kv = r.kv], n |-> r.n, err |-> r.err]

\* Mutant: every field name counts as requested.
inKey_Always(name, keys) == TRUE

\* the inKey closure of Project
inKey(name, keys) == \E k \in keys : name = k

\* the for loop of Document.Project
RECURSIVE DocProjectLoop(_, _, _, _)
DocProjectLoop(b, count, kv, keys) ==
    IF count >= Len(b) THEN [kv |-> kv, n |-> 0, err |-> Panic]
    ELSE IF b[count + 1] = EOFType THEN [kv |-> kv, n |-> count, err |-> NoErr]
    ELSE LET rn == NameUnmarshal(SliceFrom(b, count)) IN
         IF rn.err # NoErr THEN [kv |-> kv, n |-> 0, err |-> rn.err]
         ELSE LET rv == UnmarshalObject(SliceFrom(b, count + rn.n)) IN
              IF rv.err # NoErr THEN [kv |-> kv, n |-> 0, err |-> rv.err]
              ELSE IF inKey(rn.o.v, keys)
              THEN IF IsInternal(rv.o.t) THEN [kv |-> kv, n |-> 0, err |-> ErrInvalidDocument]
                   ELSE DocProjectLoop(b, count + rn.n + rv.n, MapPut(kv, rn.o.v, rv.o), keys)
              ELSE DocProjectLoop(b, count + rn.n + rv.n, kv, keys)

\* Document.Project
DocProject(doc, b, keys) ==
    IF keys = {} THEN [d |-> doc, n |-> 0, err |-> NoErr]
    ELSE IF Len(b) < 1 THEN [d |-> doc, n |-> 0, err |-> ErrInvalidLength]
    ELSE IF b[1] # DocumentType THEN [d |-> doc, n |-> 0, err |-> ErrInvalidType]
    ELSE LET r == DocProjectLoop(b, 1, doc.kv, keys) IN
         [d |-> [doc EXCEPT !.kv = r.kv], n |-> r.n, err |-> r.err]

\* --- the byte streams handed to Deserialize and Project
\* Values a caller stores with Set and finds in streams.
SetValues == {Obj(Int64Type, <<1>>), Obj(StringType, <<120>>)}

\* The field values of a stream, each with its bytes: the encoding of a legal
\* value ("value"), the complete encoding of an internal marker ("marker": an EOF
\* byte, or a Name with its terminator), or a Name tag whose terminator is
\* missing ("cut").
LegalStreamValues == {[kind |-> "value", enc |-> MarshalObject(v).b] : v \in SetValues}

MarkerStreamValues ==
    {[kind |-> "marker", enc |-> MarshalObject(Obj(EOFType, << >>)).b],
     [kind |-> "marker", enc |-> MarshalObject(Obj(NameType, <<97>>)).b]}

CutStreamValues == {[kind |-> "cut", enc |-> <<NameType, 122>>]}

StreamValues == LegalStreamValues \cup MarkerStreamValues \cup CutStreamValues

\* A stream: a leading tag, up to MaxStreamFields fields whose values are drawn
\* from vals, and a closing EOF byte or none.
StreamShapesOver(vals) ==
    LET fields == {[name |-> nm, val |-> sv] : nm \in FieldNames, sv \in vals} IN
    {[head |-> DocumentType, fields |-> fs, term |-> tm] :
        fs \in UNION {[1..n -> fields] : n \in 0..MaxStreamFields}, tm \in BOOLEAN}
    \cup {[head |-> ArrayType, fields |-> << >>, term |-> TRUE]}

StreamShapes == StreamShapesOver(StreamValues)

NoShape == [head |-> -1, fields |-> << >>, term |-> FALSE]

RECURSIVE RenderFields(_, _)
RenderFields(fs, i) ==
    IF i > Len(fs) THEN << >>
    ELSE NameMarshal(fs[i].name) \o fs[i].val.enc \o RenderFields(fs, i + 1)

\* the bytes of a stream
Render(st) ==
    <<st.head>> \o RenderFields(st.fields, 1) \o (IF st.term THEN EOFMarshal ELSE << >>)

\* the stream has a field named "id"
ShapeHasId(st) == \E i \in 1..Len(st.fields) : st.fields[i].name = IdName

\* a Document tag, fields with legal values only, and the closing EOF byte
ShapeWellFormed(st) ==
    /\ st.head = DocumentType
    /\ st.term
    /\ \A i \in 1..Len(st.fields) : st.fields[i].val.kind = "value"

\* --- the wrapper's operations
\* The streams the wrapper is fed: legal values and the EOF marker as a value.
WrapperStreams ==
    StreamShapesOver({[kind |-> "value", enc |-> MarshalObject(Obj(Int64Type, <<1>>)).b],
                      [kind |-> "marker", enc |-> MarshalObject(Obj(EOFType, << >>)).b]})

\* The record of a call: its arguments (for a stream, whether it has an "id"
\* field and whether it is well formed), its results, and the wrapper before it.
CallRec(o, pre, err) ==
    [op |-> o, pre |-> pre, err |-> err, n |-> 0, k |-> << >>, hasId |-> FALSE,
     wf |-> FALSE, ks |-> {}, order |-> << >>, out |-> << >>, res |-> NilObj]

StreamCall(o, pre, st, r) ==
    [CallRec(o, pre, r.err) EXCEPT !.hasId = ShapeHasId(st), !.wf = ShapeWellFormed(st),
                                   !.n = r.n]

\* a panic ends the process: nothing runs after it
Running == call.err # Panic

InitDoc ==
    /\ d \in {NewDocument, NewStaticDocument}
    /\ call = CallRec("New", d, NoErr)
    /\ locks = << >> /\ mu = 0 /\ pc = << >> /\ op = << >> /\ key = << >>
    /\ ret = << >> /\ last = << >> /\ holders = << >>
    /\ src = << >> /\ stream = << >> /\ buf = << >> /\ full = << >> /\ proj = << >>
    /\ val = << >> /\ wire = << >> /\ res = << >>
    /\ input = << >> /\ pos = 0 /\ tok = << >>

Set ==
    /\ Running
    /\ UNCHANGED <<lockVars, decVars, valVars, lexVars>>
    /\ \E k \in FieldNames, v \in SetValues :
          LET r == DocSet(d, k, v) IN
          /\ d' = r.d
          /\ call' = [CallRec("Set", d, r.err) EXCEPT !.k = k, !.res = v]

Del ==
    /\ Running
    /\ UNCHANGED <<lockVars, decVars, valVars, lexVars>>
    /\ \E k \in FieldNames :
          LET r == DocDel(d, k) IN
          /\ d' = r.d
          /\ call' = [CallRec("Del", d, r.err) EXCEPT !.k = k]

Get ==
    /\ Running
    /\ UNCHANGED <<lockVars, decVars, valVars, lexVars>>
    /\ \E k \in FieldNames :
          /\ call' = [CallRec("Get", d, NoErr) EXCEPT !.k = k, !.res = DocGet(d, k)]
          /\ UNCHANGED d

Keys ==
    /\ Running
    /\ UNCHANGED <<lockVars, decVars, valVars, lexVars>>
    /\ \E ord \in KeyOrders(DOMAIN d.kv) :
          call' = [CallRec("Keys", d, NoErr) EXCEPT !.order = ord]
    /\ UNCHANGED d

ID ==
    /\ Running
    /\ UNCHANGED <<lockVars, decVars, valVars, lexVars>>
    /\ call' = [CallRec("ID", d, NoErr) EXCEPT !.res = DocID(d)]
    /\ UNCHANGED d

\* Document.MarshalObject
Serialize ==
    /\ Running
    /\ UNCHANGED <<lockVars, decVars, valVars, lexVars>>
    /\ \E ord \in KeyOrders(DOMAIN d.kv) :
          LET r == GenericDocumentUnmarshaler(d, ord) IN
          call' = [CallRec("Serialize", d, r.err) EXCEPT !.order = ord, !.out = r.b]
    /\ UNCHANGED d

\* Document.UnmarshalObject
Deserialize ==
    /\ Running
    /\ UNCHANGED <<lockVars, decVars, valVars, lexVars>>
    /\ \E st \in WrapperStreams :
          LET r == DocUnmarshal(d, Render(st)) IN
          /\ d' = r.d
          /\ call' = StreamCall("Deserialize", d, st, r)

Project ==
    /\ Running
    /\ UNCHANGED <<lockVars, decVars, valVars, lexVars>>
    /\ \E st \in WrapperStreams, ks \in SUBSET FieldNames :
          LET r == DocProject(d, Render(st), ks) IN
          /\ d' = r.d
          /\ call' = [StreamCall("Project", d, st, r) EXCEPT !.ks = ks]

NextDoc ==
    \/ Set
    \/ Del
    \/ Get
    \/ Keys
    \/ ID
    \/ Serialize
    \/ Deserialize
    \/ Project

Spec == InitDoc /\ [][NextDoc]_vars

\* ------------------------------------------------------------ codec runs
\* One run of the codec on one input: a Document is encoded (in some key order)
\* or a stream is received; the bytes are decoded in full into a fresh wrapper,
\* then projected into another fresh wrapper.
MaxArrayLen == 2

DocNames == FieldNames \cup {<<98>>}   \* "id", "a", "b"

ArrayElems == {Obj(Int32Type, <<1>>), Obj(Int32Type, <<-2>>)}

Arrays == {Arr(a) : a \in UNION {[1..n -> ArrayElems] : n \in 0..MaxArrayLen}}

DocValues == {Obj(Int64Type, <<-2>>), Obj(StringType, <<120>>)} \cup Arrays

\* wrappers holding an "id", as a caller builds them with Set
Documents ==
    {[kv |-> kv, modified |-> TRUE, static |-> FALSE] :
        kv \in UNION {[S -> DocValues] : S \in {T \in SUBSET DocNames : IdName \in T}}}

NotDone == [done |-> FALSE, d |-> NewDocument, n |-> 0, err |-> NoErr, ks |-> {}]

Outcome(r, ks) == [done |-> TRUE, d |-> r.d, n |-> r.n, err |-> r.err, ks |-> ks]

InitDecode ==
    /\ \/ /\ src \in Documents
          /\ stream = NoShape
          /\ buf = [ready |-> FALSE, b |-> << >>, order |-> << >>]
       \/ /\ src = NewDocument
          /\ stream \in StreamShapes
          /\ buf = [ready |-> TRUE, b |-> Render(stream), order |-> << >>]
    /\ full = NotDone
    /\ proj = NotDone
    /\ d = << >> /\ call = << >>
    /\ locks = << >> /\ mu = 0 /\ pc = << >> /\ op = << >> /\ key = << >>
    /\ ret = << >> /\ last = << >> /\ holders = << >>
    /\ val = << >> /\ wire = << >> /\ res = << >>
    /\ input = << >> /\ pos = 0 /\ tok = << >>

\* src.MarshalObject(), the map yielding its keys in some order
Encode ==
    /\ ~buf.ready
    /\ \E ord \in KeyOrders(DOMAIN src.kv) :
          LET r == GenericDocumentUnmarshaler(src, ord) IN
          /\ r.err = NoErr
          /\ buf' = [ready |-> TRUE, b |-> r.b, order |-> ord]
    /\ UNCHANGED <<src, stream, full, proj, docVars, lockVars, valVars, lexVars>>

\* NewDocument().UnmarshalObject(buf)
DecodeFull ==
    /\ buf.ready /\ ~full.done
    /\ full' = Outcome(DocUnmarshal(NewDocument, buf.b), {})
    /\ UNCHANGED <<src, stream, buf, proj, docVars, lockVars, valVars, lexVars>>

\* NewDocument().Project(buf, ks...)
DecodeProject ==
    /\ full.done /\ ~proj.done
    /\ \E ks \in SUBSET FieldNames :
          proj' = Outcome(DocProject(NewDocument, buf.b, ks), ks)
    /\ UNCHANGED <<src, stream, buf, full, docVars, lockVars, valVars, lexVars>>

NextDecode ==
    \/ Encode
    \/ DecodeFull
    \/ DecodeProject

SpecDecode == InitDecode /\ [][NextDecode]_vars

\* Restrict(kv, ks): the fields of kv whose names are in ks
Restrict(kv, ks) == [k \in DOMAIN kv \cap ks |-> kv[k]]

\* the position of the first field of a stream whose value is not a legal value,
\* or 0 when every value is legal
FirstIllegal(st) ==
    LET bad == {i \in 1..Len(st.fields) : st.fields[i].val.kind # "value"}
    IN IF bad = {} THEN 0 ELSE CHOOSE i \in bad : \A j \in bad : i <= j

\* ------------------------------------------------------------ claims C3..C10
\* C3: on a wrapper constructed as static, every Set and every Del fails with
\* StaticDocument and leaves the field map and the modified flag as they were
\* before the call.
C3_StaticRejectsSetDel ==
    (d.static /\ call.op \in {"Set", "Del"})
        => /\ call.err = ErrStaticDocument
           /\ d.kv = call.pre.kv
           /\ d.modified = call.pre.modified

\* C3 witness: Set has been rejected on a static wrapper that holds fields.
C3_Witness ==
    /\ d.static /\ call.op = "Set" /\ call.err = ErrStaticDocument
    /\ DOMAIN d.kv # {}

\* C4 (as claimed): the field map of a static wrapper is, after every call that
\* returns, what it was at construction, the empty map.
C4_StaticMapNeverChanges == (d.static /\ call.err # Panic) => d.kv = NewStaticDocument.kv

\* C5 (as claimed): when Deserialize or Project returns an error, the field map is
\* exactly what it was before the call.
C5_DecodeFailureLeavesMap ==
    (call.op \in {"Deserialize", "Project"} /\ call.err \notin {NoErr, Panic})
        => d.kv = call.pre.kv

\* C6 (as claimed): Deserialize of a well-formed Document stream with no field
\* named "id" fails with InvalidDocument, whatever the wrapper held before.
C6_NoIdFieldFails ==
    (call.op = "Deserialize" /\ call.wf /\ ~call.hasId)
        => call.err = ErrInvalidDocument

C9_CountIsFullLength ==
    /\ (stream = NoShape /\ full.done /\ full.err = NoErr) => full.n = Len(buf.b)
    /\ (stream = NoShape /\ proj.done /\ proj.err = NoErr /\ proj.ks # {})
           => proj.n = Len(buf.b)

\* C10 (as claimed): Deserialize of Serialize(d) into a fresh wrapper succeeds and
\* yields the field map and the ID() of d, in every key order of the encoder.
C10_DocumentRoundTrip ==
    (stream = NoShape /\ full.done)
        => /\ full.err = NoErr
           /\ full.d.kv = src.kv
           /\ DocID(full.d) = DocID(src)

\* ------------------------------------------------------------ value runs
\* One run of the generic codec on one value standing alone: a scalar or an
\* Array of scalars is encoded with types.MarshalObject, or an Array stream is
\* received; types.UnmarshalObject is then applied to the bytes, or to a
\* truncation of them.
MaxStrLen == 2

\* content bytes of a String: the terminator value, a letter, the top byte
StrBytes == {NullTerm, 120, 255}

Strings == UNION {[1..n -> StrBytes] : n \in 0..MaxStrLen}

\* the ends of the 32-bit range, and values around zero
IntValues == {-2147483647 - 1, -256, -2, -1, 0, 1, 42, 255, 256, 2147483647}

\* IEEE-754 bit patterns: 0.0, -0.0, 1.5, a NaN
FloatValues ==
    {<<0, 0, 0, 0, 0, 0, 0, 0>>, <<128, 0, 0, 0, 0, 0, 0, 0>>,
     <<63, 248, 0, 0, 0, 0, 0, 0>>, <<127, 248, 0, 0, 0, 0, 0, 1>>}

ScalarTypes == {NullType, BoolType, CharType, Int32Type, Int64Type, FloatType, StringType}

Scalars ==
    {Obj(NullType, << >>)}
    \cup {Obj(BoolType, <<v>>) : v \in {0, 1}}
    \cup {Obj(CharType, <<c>>) : c \in {0, 24, 97, 255}}
    \cup {Obj(Int32Type, <<i>>) : i \in IntValues}
    \cup {Obj(Int64Type, <<i>>) : i \in IntValues}
    \cup {Obj(FloatType, f) : f \in FloatValues}
    \cup {Obj(StringType, s) : s \in Strings}

\* elements of the Arrays of a value run, one per scalar family
ScalarElems ==
    {Obj(Int32Type, <<1>>), Obj(BoolType, <<1>>), Obj(StringType, <<120>>),
     Obj(NullType, << >>)}

ScalarArrays == {Arr(a) : a \in UNION {[1..n -> ScalarElems] : n \in 0..MaxArrayLen}}

\* Array streams as a peer may send them: the Array tag, then the encodings of
\* values among which a Name may sit, then an EOF byte or the end of the buffer
StreamElems == ScalarElems \cup {Obj(NameType, <<97>>)}

\* name: a Name-tagged value occupies an element position
ArrayStreams ==
    {[ready |-> TRUE, b |-> ArrayMarshal(a).b \o t,
      name |-> \E i \in DOMAIN a : a[i].t = NameType] :
        a \in UNION {[1..n -> StreamElems] : n \in 0..MaxArrayLen},
        t \in {<<EOFType>>, << >>}}

NoRes == [done |-> FALSE, o |-> NilObj, n |-> 0, err |-> NoErr, cut |-> 0]

InitValue ==
    /\ \/ /\ val \in Scalars \cup ScalarArrays
          /\ wire = [ready |-> FALSE, b |-> << >>, name |-> FALSE]
       \/ /\ val = NilObj
          /\ wire \in ArrayStreams
    /\ res = NoRes
    /\ d = << >> /\ call = << >>
    /\ src = << >> /\ stream = << >> /\ buf = << >> /\ full = << >> /\ proj = << >>
    /\ locks = << >> /\ mu = 0 /\ pc = << >> /\ op = << >> /\ key = << >>
    /\ ret = << >> /\ last = << >> /\ holders = << >>
    /\ input = << >> /\ pos = 0 /\ tok = << >>

\* types.MarshalObject(val)
MarshalValue ==
    /\ ~wire.ready
    /\ LET m == MarshalObject(val) IN
       /\ m.err = NoErr
       /\ wire' = [ready |-> TRUE, b |-> m.b, name |-> FALSE]
    /\ UNCHANGED <<val, res, docVars, decVars, lockVars, lexVars>>

\* types.UnmarshalObject(wire.b[:cut]); cut = len(wire.b) is the whole buffer
UnmarshalValue ==
    /\ wire.ready /\ ~res.done
    /\ \E cut \in 0..Len(wire.b) :
          LET r == UnmarshalObject(SubSeq(wire.b, 1, cut)) IN
          res' = [done |-> TRUE, o |-> r.o, n |-> r.n, err |-> r.err, cut |-> cut]
    /\ UNCHANGED <<val, wire, docVars, decVars, lockVars, lexVars>>

NextValue ==
    \/ MarshalValue
    \/ UnmarshalValue

SpecValue == InitValue /\ [][NextValue]_vars

\* the encodings of the elements of el, one after the other in the order of el
RECURSIVE ElemBytes(_)
ElemBytes(el) ==
    IF el = << >> THEN << >> ELSE MarshalObject(Head(el)).b \o ElemBytes(Tail(el))

\* a String is representable on the wire when its content holds no 0x00 byte;
\* every value of the other scalar types is
Representable(o) == o.t = StringType => \A i \in DOMAIN o.v : o.v[i] # NullTerm

\* the buffer handed to the decoder is shorter than its value requires: a proper
\* prefix of an encoding, or an Array stream that ends with no EOF byte
Short ==
    /\ val.t \in ScalarTypes => Representable(val)
    /\ \/ res.cut < Len(wire.b)
       \/ val.t = ArrayType
       \/ val = NilObj /\ wire.b[Len(wire.b)] # EOFType

\* ------------------------------------------------------------ claims C11..C14
\* C11: the encoding of an Array is the Array tag, then each element's encoding
\* in the original order, then one EndOfStream byte; and decoding the encoding
\* of an Array of scalars (the empty Array included) standing alone succeeds and
\* returns the same elements in the same order.
C11_ArrayEncodingRoundTrip ==
    (val.t = ArrayType /\ wire.ready) =>
        /\ wire.b = <<ArrayType>> \o ElemBytes(val.el) \o <<EOFType>>
        /\ (res.done /\ res.cut = Len(wire.b)) => (res.err = NoErr /\ res.o = val)

\* C12: for every scalar value v that the wire format can represent, the generic
\* decode of the generic encoding of v returns v and a consumed count equal to
\* the length of the encoding; Int64(42) encodes to the 9 bytes 2,0,0,0,0,0,0,0,42.
C12_ScalarRoundTrip ==
    /\ (val.t \in ScalarTypes /\ Representable(val) /\ res.done
            /\ res.cut = Len(wire.b)) =>
          (res.err = NoErr /\ res.o = val /\ res.n = Len(wire.b))
    /\ (val = Obj(Int64Type, <<42>>) /\ wire.ready) =>
          wire.b = <<2, 0, 0, 0, 0, 0, 0, 0, 42>>

\* C12 witness: Int64(42) has been encoded to 9 bytes and decoded to (Int64(42), 9).
C12_Witness ==
    /\ val = Obj(Int64Type, <<42>>)
    /\ res.done /\ res.cut = 9 /\ res.err = NoErr
    /\ res.o = Obj(Int64Type, <<42>>) /\ res.n = 9

\* C13: decoding a buffer shorter than its value requires (a 1-byte buffer
\* holding a Bool tag and an Array stream with no EndOfStream byte included)
\* returns InvalidLength, and never faults by reading past the end.
C13_TruncatedIsInvalidLength ==
    (res.done /\ Short) => res.err = ErrInvalidLength

\* C14: decoding an Array stream in which a FieldName-tagged value occupies an
\* element position fails with InvalidDocument, and no successfully decoded
\* Array contains an element whose tag is EndOfStream or FieldName.
C14_NoMarkerElement ==
    /\ (res.done /\ res.cut = Len(wire.b) /\ wire.name
            /\ wire.b[Len(wire.b)] = EOFType) =>
          res.err = ErrInvalidDocument
    /\ (res.done /\ res.err = NoErr /\ res.o.t = ArrayType) =>
          \A i \in DOMAIN res.o.el : res.o.el[i].t \notin {EOFType, NameType}

\* ------------------------------------------------------------------ lexer
\* Token types (the iota block of package lexer).
TokenEOF == 0
TokenError == 1
TokenOpenParen == 2
TokenCloseParen == 3
TokenOpenBracket == 4
TokenCloseBracket == 5
TokenOpenBrace == 6
TokenCloseBrace == 7
TokenComma == 8
TokenColon == 9
TokenSemicolon == 10
TokenDot == 11
TokenDoubleColon == 12
TokenPipe == 13
TokenPercent == 14
TokenPlus == 15
TokenMinus == 16
TokenAsterisk == 17
TokenSlash == 18
TokenDoubleSlash == 19
TokenDoubleAsterisk == 20
TokenBang == 21
TokenAnd == 22
TokenOr == 23
TokenEqual == 24
TokenNotEqual == 25
TokenLessThan == 26
TokenLessThanEqual == 27
TokenGreaterThan == 28
TokenGreaterThanEqual == 29
TokenInc == 30
TokenDec == 31
TokenNumber == 32
TokenParam == 33
TokenIdent == 34
TokenString == 35
TokenBool == 36
TokenNull == 37
TokenLet == 38

\* errors.New(...) of the scanner
ErrUnterminated == "Unterminated string"
ErrExpectedIdent == "Expected identifier after $"
ErrUnexpected(c) == "Unexpected character: " \o c

\* A character is a one-character string; Lexer.input and a Token's Value are
\* sequences of characters. A failed call returns the nil token.
Token(typ, value, at) == [typ |-> typ, value |-> value, pos |-> at]
NilToken == Token(-1, << >>, 0)

\* s[from:to] of a Go string (0-based, to exclusive)
Slice(s, from, to) == SubSeq(s, from + 1, to)

Digits == {"0", "1", "2", "3", "4", "5", "6", "7", "8", "9"}

Letters ==
    {"a", "b", "c", "d", "e", "f", "g", "h", "i", "j", "k", "l", "m",
     "n", "o", "p", "q", "r", "s", "t", "u", "v", "w", "x", "y", "z",
     "A", "B", "C", "D", "E", "F", "G", "H", "I", "J", "K", "L", "M",
     "N", "O", "P", "Q", "R", "S", "T", "U", "V", "W", "X", "Y", "Z"}

isDigit(c) == c \in Digits
isIdentStart(c) == c \in Letters \/ c = "_"
isIdent(c) == isIdentStart(c) \/ isDigit(c)

\* the cursor after consumeWhitespace
RECURSIVE consumeWhitespace(_, _)
consumeWhitespace(in, p) ==
    IF p < Len(in) /\ in[p + 1] \in {" ", "\t", "\n", "\r"}
    THEN consumeWhitespace(in, p + 1) ELSE p

\* l.input[l.pos]: the character under the cursor, not the one after it
peek(in, p) == in[p + 1]

\* consumeToken: the token starts at the cursor, which moves on by len(value)
consumeToken(p, typ, value) ==
    [tok |-> Token(typ, value, p), err |-> NoErr, pos |-> p + Len(value)]

Fail(e, p) == [tok |-> NilToken, err |-> e, pos |-> p]

\* the loop of unescapeString from index i on; s[i] after a trailing backslash
\* is out of range
RECURSIVE unescapeString(_, _, _)
unescapeString(s, i, str) ==
    IF i >= Len(s) THEN [str |-> str, panic |-> FALSE]
    ELSE IF s[i + 1] = "\\"
    THEN IF i + 1 >= Len(s) THEN [str |-> str, panic |-> TRUE]
         ELSE LET e == s[i + 2] IN
              unescapeString(s, i + 2,
                  CASE e = "n" -> Append(str, "\n")
                    [] e = "r" -> Append(str, "\r")
                    [] e = "t" -> Append(str, "\t")
                    [] e \in {"\\", "'", "\""} -> Append(str, e)
                    [] OTHER -> str)
    ELSE unescapeString(s, i + 1, Append(str, s[i + 1]))

\* the loop of consumeString; start is the index after the opening delimiter
RECURSIVE consumeStringLoop(_, _, _, _)
consumeStringLoop(in, p, start, delim) ==
    IF p >= Len(in) THEN Fail(ErrUnterminated, p)
    ELSE IF in[p + 1] = delim
    THEN LET u == unescapeString(Slice(in, start, p), 0, << >>) IN
         IF u.panic THEN Fail(Panic, p)
         ELSE [tok |-> Token(TokenString, u.str, start), err |-> NoErr, pos |-> p + 1]
    ELSE IF in[p + 1] = "\\" THEN consumeStringLoop(in, p + 2, start, delim)
    ELSE consumeStringLoop(in, p + 1, start, delim)

consumeString(in, p, delim) == consumeStringLoop(in, p + 1, p + 1, delim)

\* the cursor after a run of digits
RECURSIVE skipDigits(_, _)
skipDigits(in, p) ==
    IF p < Len(in) /\ isDigit(in[p + 1]) THEN skipDigits(in, p + 1) ELSE p

\* the cursor after a run of identifier characters
RECURSIVE skipIdent(_, _)
skipIdent(in, p) ==
    IF p < Len(in) /\ isIdent(in[p + 1]) THEN skipIdent(in, p + 1) ELSE p

consumeNumber(in, p) ==
    LET q == skipDigits(in, p)
        e == IF q < Len(in) /\ in[q + 1] = "." THEN skipDigits(in, q + 1) ELSE q
    IN [tok |-> Token(TokenNumber, Slice(in, p, e), p), err |-> NoErr, pos |-> e]

consumeIdent(in, p) ==
    LET e == skipIdent(in, p)
        value == Slice(in, p, e)
        typ == CASE value = <<"n", "u", "l", "l">> -> TokenNull
                 [] value \in {<<"t", "r", "u", "e">>, <<"f", "a", "l", "s", "e">>} -> TokenBool
                 [] value = <<"l", "e", "t">> -> TokenLet
                 [] OTHER -> TokenIdent
    IN [tok |-> Token(typ, value, p), err |-> NoErr, pos |-> e]

consumeParam(in, p) ==
    IF p + 1 >= Len(in) \/ ~isIdentStart(in[p + 2]) THEN Fail(ErrExpectedIdent, p)
    ELSE LET e == skipIdent(in, p + 1) IN
         [tok |-> Token(TokenParam, Slice(in, p + 1, e), p + 1), err |-> NoErr, pos |-> e]

\* one case of the switch of NextToken for an operator that has a doubled or
\* '='-suffixed form: peek() is compared with second
twoOrOne(in, p, second, typ2, typ1) ==
    IF peek(in, p) = second THEN consumeToken(p, typ2, <<in[p + 1], second>>)
    ELSE consumeToken(p, typ1, <<in[p + 1]>>)

\* NextToken on a lexer whose input is in and whose cursor is p0
NextTokenAt(in, p0) ==
    LET p == consumeWhitespace(in, p0) IN
    IF p >= Len(in) THEN consumeToken(p, TokenEOF, << >>)
    ELSE LET c == in[p + 1] IN
      CASE c = "(" -> consumeToken(p, TokenOpenParen, <<c>>)
        [] c = ")" -> consumeToken(p, TokenCloseParen, <<c>>)
        [] c = "[" -> consumeToken(p, TokenOpenBracket, <<c>>)
        [] c = "]" -> consumeToken(p, TokenCloseBracket, <<c>>)
        [] c = "{" -> consumeToken(p, TokenOpenBrace, <<c>>)
        [] c = "}" -> consumeToken(p, TokenCloseBrace, <<c>>)
        [] c = "," -> consumeToken(p, TokenComma, <<c>>)
        [] c = ":" -> twoOrOne(in, p, ":", TokenDoubleColon, TokenColon)
        [] c = ";" -> consumeToken(p, TokenSemicolon, <<c>>)
        [] c = "." -> consumeToken(p, TokenDot, <<c>>)
        [] c = "|" -> twoOrOne(in, p, "|", TokenOr, TokenPipe)
        [] c = "%" -> consumeToken(p, TokenPercent, <<c>>)
        [] c = "+" -> twoOrOne(in, p, "+", TokenInc, TokenPlus)
        [] c = "-" -> twoOrOne(in, p, "-", TokenDec, TokenMinus)
        [] c = "*" -> twoOrOne(in, p, "*", TokenDoubleAsterisk, TokenAsterisk)
        [] c = "/" -> twoOrOne(in, p, "/", TokenDoubleSlash, TokenSlash)
        [] c = "!" -> twoOrOne(in, p, "=", TokenNotEqual, TokenBang)
        [] c = "=" -> twoOrOne(in, p, "=", TokenEqual, TokenEqual)
        [] c = "<" -> twoOrOne(in, p, "=", TokenLessThanEqual, TokenLessThan)
        [] c = ">" -> twoOrOne(in, p, "=", TokenGreaterThanEqual, TokenGreaterThan)
        [] c = "&" -> IF peek(in, p) = "&" THEN consumeToken(p, TokenAnd, <<"&", "&">>)
                      ELSE Fail(ErrUnexpected("&"), p)
        [] c = "\"" -> consumeString(in, p, c)
        [] c = "'" -> consumeString(in, p, c)
        [] c = "$" -> consumeParam(in, p)
        [] OTHER -> IF isDigit(c) THEN consumeNumber(in, p)
                    ELSE IF isIdentStart(c) THEN consumeIdent(in, p)
                    ELSE Fail(ErrUnexpected(c), p)

\* bounds of the scanner's inputs
MaxInputLen == 3

\* the characters of an operator, a blank, a letter, a digit, a quote, a
\* backslash, a parameter sign and a character outside the language
LexChars ==
    {":", "|", "+", "-", "*", "/", "!", "=", "<", ">", "&",
     " ", "a", "1", "\"", "\\", "$", "#"}

Inputs == UNION {[1..n -> LexChars] : n \in 0..MaxInputLen}

\* the state before the first call of NextToken
NoCall == [called |-> FALSE, t |-> NilToken, err |-> NoErr, at |-> 0]

\* NewLexer(input)
NewLexer ==
    /\ input \in Inputs
    /\ pos = 0
    /\ tok = NoCall
    /\ d = << >> /\ call = << >>
    /\ src = << >> /\ stream = << >> /\ buf = << >> /\ full = << >> /\ proj = << >>
    /\ locks = << >> /\ mu = 0 /\ pc = << >> /\ op = << >> /\ key = << >>
    /\ ret = << >> /\ last = << >> /\ holders = << >>
    /\ val = << >> /\ wire = << >> /\ res = << >>

\* l.NextToken(); at records the cursor once the blanks are skipped, where the
\* switch looks. The driver stops calling at the EOF token and at an error.
NextToken ==
    /\ ~(tok.called /\ (tok.err # NoErr \/ tok.t.typ = TokenEOF))
    /\ LET r == NextTokenAt(input, pos) IN
       /\ pos' = r.pos
       /\ tok' = [called |-> TRUE, t |-> r.tok, err |-> r.err,
                  at |-> consumeWhitespace(input, pos)]
    /\ UNCHANGED <<input, docVars, decVars, lockVars, valVars>>

NextLexer == NextToken

SpecLexer == NewLexer /\ [][NextLexer]_vars

\* the two-character operator tokens, and the one-character token of each
\* operator character that has a doubled form
TwoCharTokens ==
    {<<TokenDoubleColon, <<":", ":">> >>, <<TokenOr, <<"|", "|">> >>,
     <<TokenInc, <<"+", "+">> >>, <<TokenDec, <<"-", "-">> >>,
     <<TokenDoubleAsterisk, <<"*", "*">> >>, <<TokenDoubleSlash, <<"/", "/">> >>,
     <<TokenNotEqual, <<"!", "=">> >>, <<TokenEqual, <<"=", "=">> >>,
     <<TokenLessThanEqual, <<"<", "=">> >>, <<TokenGreaterThanEqual, <<">", "=">> >>,
     <<TokenAnd, <<"&", "&">> >>}

OneCharToken ==
    [c \in {":", "|", "+", "-", "*", "/"} |->
        CASE c = ":" -> TokenColon [] c = "|" -> TokenPipe [] c = "+" -> TokenPlus
          [] c = "-" -> TokenMinus [] c = "*" -> TokenAsterisk [] c = "/" -> TokenSlash]

\* ------------------------------------------------------------ claim C15
\* C15: NextToken emits a two-character operator token only when both of its
\* characters are present at the cursor; a ':' '|' '+' '-' '*' '/' that is not
\* followed by its second character yields the one-character token and advances
\* the cursor by exactly one; the cursor never passes the end of the input.
C15_OperatorScanning ==
    (tok.called /\ tok.err = NoErr) =>
        /\ <<tok.t.typ, tok.t.value>> \in TwoCharTokens =>
              /\ tok.at + 2 <= Len(input)
              /\ SubSeq(input, tok.at + 1, tok.at + 2) = tok.t.value
        /\ \A c \in DOMAIN OneCharToken :
              (/\ tok.at < Len(input) /\ input[tok.at + 1] = c
               /\ ~(tok.at + 2 <= Len(input) /\ input[tok.at + 2] = c)) =>
                  /\ tok.t = Token(OneCharToken[c], <<c>>, tok.at)
                  /\ pos = tok.at + 1
        /\ pos <= Len(input)

====
